---- MODULE Spec2Model ----
(***************************************************************************)
(* DeepRecall client: the streaming-coordination layer.                    *)
(*                                                                         *)
(*   src/src/api/client.ts    chatQueryStream  (SpecStream)                *)
(*   src/src/hooks/useRAG.ts  useRAG hook      (Spec, SpecLive)            *)
(*                                                                         *)
(* Text is a sequence of one-character strings.  The response body of the  *)
(* streaming endpoint is a sequence of bytes; an ASCII byte is written as  *)
(* its character, and the two bytes of the UTF-8 encoding of U+00E9 are    *)
(* written "C3" and "A9".                                                  *)
(***************************************************************************)
EXTENDS Integers, Sequences, FiniteSets, TLC

VARIABLES
    \* ---- chatQueryStream (client.ts) ----
    wire,       \* the bytes the server sends on the response body
    rpos,       \* number of bytes of wire the reader has returned so far
    pending,    \* TextDecoder's held bytes of an incomplete character
    buffer,     \* `buffer`: text after the last newline seen
    calls,      \* the callbacks invoked so far, in order: [cb, arg]
    spc,        \* "fetch" | "reading" | "resolved"
    ending,     \* how the call ended: "none" | "eof" | "readfail" | "fetchfail"
    midcut,     \* some chunk ended inside a line (or inside a character)
    \* ---- useRAG: React state (useRAG.ts 14-30) ----
    pipelineStatus,
    uploadedFile,
    metrics,
    realElements,
    realChunks,
    messages,
    isTyping,
    expandedQueries,
    \* ---- useRAG: the live status effect (useRAG.ts 43-124) ----
    ws,                 \* "init" before connect() first runs, "none" when the
                        \* constructor threw, else the socket's readyState
    reconnectTimeout,   \* delay in ms of the pending timer, or NoTimer
    isMounted,
    retryCount,
    timers,             \* timeouts set by setTimeout(connect, ...) and not yet
                        \* fired or cleared
    sockets,            \* sockets constructed whose close event has not fired
    connects,           \* parity of the number of connect() calls
    \* ---- useRAG: calls in flight ----
    uploads,    \* handleUpload calls awaiting uploadFile
    turns,      \* one record per sendMessage call: its closure variables
    now,        \* the last value Date.now() returned
    justReset,  \* "no", or what resetState just cleared: "clean" | "dirty"
    \* ---- App and the file dialog ----
    inputValue, \* App's inputValue state: the text in the query box
    picked,     \* the file chosen in the dialog whose change event is pending
    alertShown  \* the text of the last alert(), or Null

streamVars == <<wire, rpos, pending, buffer, calls, spc, ending, midcut>>
pipelineVars == <<pipelineStatus, uploadedFile, metrics, realElements, realChunks, uploads>>
chatVars == <<messages, isTyping, expandedQueries, turns, now>>
hookVars == <<pipelineStatus, uploadedFile, metrics, realElements, realChunks, uploads,
              messages, isTyping, expandedQueries, turns, now,
              ws, reconnectTimeout, isMounted, retryCount, timers, sockets,
              connects, justReset, inputValue, picked, alertShown>>
liveVars == <<ws, reconnectTimeout, isMounted, retryCount, timers, sockets, connects>>

uiVars == <<inputValue, picked, alertShown>>

vars == <<streamVars, pipelineVars, chatVars, liveVars, justReset, uiVars>>

\* ------------------------------------------------------------------ bounds
MaxFrames == 2      \* lines on the wire
MaxChunk == 4       \* bytes of a network chunk that is not the whole rest
MaxCount == 1       \* largest count an envelope or a report carries
MaxUploads == 1     \* handleUpload calls in flight
MaxTurns == 2       \* sendMessage calls
MaxCalls == 2       \* callbacks invoked by the streams of all turns
MaxRetry == 6       \* consecutive failed connection attempts

\* ------------------------------------------------------------- text helpers
NL == "\n"
Lead == "C3"
Cont == "A9"
EAcute == "e'"
Replacement == "?"

Last(s) == s[Len(s)]
Front(s) == SubSeq(s, 1, Len(s) - 1)

RECURSIVE Concat(_)
Concat(ss) == IF ss = <<>> THEN <<>> ELSE Head(ss) \o Concat(Tail(ss))

StartsWith(s, p) == Len(s) >= Len(p) /\ SubSeq(s, 1, Len(p)) = p

\* decoder.decode(value, {stream: true}): a lead byte at the end of the input
\* is held back for the next call; an ill-formed byte gives U+FFFD.
RECURSIVE Utf8Stream(_)
Utf8Stream(bs) ==
    IF bs = <<>> THEN [text |-> <<>>, held |-> <<>>]
    ELSE IF Head(bs) = Lead THEN
        IF Len(bs) = 1 THEN [text |-> <<>>, held |-> bs]
        ELSE IF bs[2] = Cont THEN
            LET r == Utf8Stream(Tail(Tail(bs)))
            IN  [text |-> <<EAcute>> \o r.text, held |-> r.held]
        ELSE
            LET r == Utf8Stream(Tail(bs))
            IN  [text |-> <<Replacement>> \o r.text, held |-> r.held]
    ELSE
        LET r == Utf8Stream(Tail(bs))
            c == IF Head(bs) = Cont THEN Replacement ELSE Head(bs)
        IN  [text |-> <<c>> \o r.text, held |-> r.held]

\* buffer.split('\n'): always at least one piece.
RECURSIVE Split(_)
Split(s) ==
    IF \A i \in 1..Len(s) : s[i] # NL THEN <<s>>
    ELSE LET i == CHOOSE k \in 1..Len(s) :
                      s[k] = NL /\ \A j \in 1..(k - 1) : s[j] # NL
         IN  <<SubSeq(s, 1, i - 1)>> \o Split(SubSeq(s, i + 1, Len(s)))

\* lines.pop() || ''
RemainderDropped(parts) == <<>>

Remainder(parts) == Last(parts)

\* ---------------------------------------------------------------- frames
\* The JSON text of a frame is written "{" k data "}" where the letter k
\* stands for the value of "type" and data for the value of "data":
\*   Q queries, C chunks (one digit per item: its score), T token, D done,
\*   E error, any other letter an unknown type.
Prefix == <<"d", "a", "t", "a", ":", " ">>

TypeOf(k) ==
    CASE k = "Q" -> "queries"
      [] k = "C" -> "chunks"
      [] k = "T" -> "token"
      [] k = "D" -> "done"
      [] k = "E" -> "error"
      [] OTHER -> "unknown"

Digit(c) == CASE c = "1" -> 1 [] c = "2" -> 2 [] c = "3" -> 3 [] OTHER -> 0

\* The evidence list of a chunks frame: item i carries id i (its arrival
\* position) and its score.
Evidence(data) == [i \in 1..Len(data) |-> [id |-> i, score |-> Digit(data[i])]]

\* JSON.parse(line.slice(6)): throws on text that is not well formed.
ParseJSON(txt) ==
    IF Len(txt) >= 3 /\ txt[1] = "{" /\ Last(txt) = "}"
    THEN [ok |-> TRUE, type |-> TypeOf(txt[2]),
          data |-> SubSeq(txt, 3, Len(txt) - 1)]
    ELSE [ok |-> FALSE, type |-> "unknown", data |-> <<>>]

Call(cb, arg) == [cb |-> cb, arg |-> arg]

\* The body of `for (const line of lines)`: the callbacks one line gives.
DispatchLine(line) ==
    IF ~StartsWith(line, Prefix) THEN <<>>
    ELSE LET d == ParseJSON(SubSeq(line, Len(Prefix) + 1, Len(line)))
         IN  IF ~d.ok THEN <<>>
             ELSE CASE d.type = "queries" -> <<Call("onQueries", d.data)>>
                    [] d.type = "chunks" -> <<Call("onChunks", Evidence(d.data))>>
                    [] d.type = "token" -> <<Call("onToken", d.data)>>
                    [] d.type = "done" -> <<Call("onDone", d.data)>>
                    [] d.type = "error" -> <<Call("onError", d.data)>>
                    [] OTHER -> <<>>

\* A variant of the loop over lines that gives up at the first line that
\* invokes nothing.
RECURSIVE DispatchLinesStopAtBad(_)
DispatchLinesStopAtBad(lines) ==
    IF lines = <<>> \/ DispatchLine(Head(lines)) = <<>> THEN <<>>
    ELSE DispatchLine(Head(lines)) \o DispatchLinesStopAtBad(Tail(lines))

RECURSIVE DispatchLines(_)
DispatchLines(lines) ==
    IF lines = <<>> THEN <<>>
    ELSE DispatchLine(Head(lines)) \o DispatchLines(Tail(lines))

\* One iteration of the read loop on a chunk `value`.
ProcessChunk(pend, buf, value) ==
    LET dec == Utf8Stream(pend \o value)
        parts == Split(buf \o dec.text)
    IN  [pending |-> dec.held,
         buffer |-> Remainder(parts),
         calls |-> DispatchLines(Front(parts))]

\* ------------------------------------------------------- streams explored
Line(k, data) == Prefix \o <<"{", k>> \o data \o <<"}">>

FrameSet ==
    { Line("Q", <<Lead, Cont>>),
      Line("C", <<"2", "1", "2">>),
      Line("T", <<"H", "e">>),
      Line("T", <<"y">>),
      Line("D", <<"H", "e", "y">>),
      Line("E", <<"n", "o">>),
      Line("Z", <<"x">>),
      Prefix \o <<"{", "T", "x">>,
      <<"{", "T", "y", "}">>,
      <<>> }

\* An unterminated last line, when the stream ends inside a frame.
TailSet == { <<>>, Line("T", <<"y">>) }

Terminated(frames) == [i \in 1..Len(frames) |-> frames[i] \o <<NL>>]

Wires ==
    { Concat(Terminated(fs)) \o t :
        fs \in UNION { [1..n -> FrameSet] : n \in 0..MaxFrames }, t \in TailSet }

\* ================================================================ useRAG
Null == "<null>"
NoTimer == -1
NoNum == -1         \* a field that is absent, or is not a number
NonString == "<not a string>"

ZeroMetrics == [elements |-> 0, chunks |-> 0, images |-> 0, tables |-> 0]

HookInit ==
    /\ pipelineStatus = "idle"
    /\ uploadedFile = Null
    /\ metrics = ZeroMetrics
    /\ realElements = <<>>
    /\ realChunks = <<>>
    /\ messages = <<>>
    /\ isTyping = FALSE
    /\ expandedQueries = <<>>
    /\ uploads = 0
    /\ turns = <<>>
    /\ now = 0
    /\ justReset = "no"

LiveInit ==
    /\ ws = "init"
    /\ reconnectTimeout = NoTimer
    /\ isMounted = TRUE
    /\ retryCount = 0
    /\ timers = 0
    /\ sockets = 0
    /\ connects = 0

UiInit ==
    /\ inputValue = <<>>
    /\ picked = <<>>
    /\ alertShown = Null

StreamIdle ==
    /\ wire = <<>>
    /\ rpos = 0
    /\ pending = <<>>
    /\ buffer = <<>>
    /\ calls = <<>>
    /\ spc = "fetch"
    /\ ending = "none"
    /\ midcut = FALSE

\* --------------------------------------------------- live status channel
BaseDelay == 1000
MaxDelay == 10000
CatchDelay == 3000

RECURSIVE Pow2(_)
Pow2(n) == IF n = 0 THEN 1 ELSE 2 * Pow2(n - 1)

Min(a, b) == IF a <= b THEN a ELSE b

\* Math.min(1000 * Math.pow(2, retryCount), 10000)
WaitTime(n) == Min(BaseDelay * Pow2(n), MaxDelay)

\* The body of connect(), called with `fired` timeouts just consumed: the
\* constructor returns a socket, or throws and the catch block schedules the
\* retry.
ConnectBody(fired) ==
    /\ connects' = 1 - connects
    /\ \/ /\ ws' = "connecting"
          /\ sockets' = sockets + 1
          /\ reconnectTimeout' = NoTimer
          /\ timers' = timers - fired
          /\ UNCHANGED retryCount
       \/ /\ ws' = (IF ws = "init" THEN "none" ELSE ws)
          /\ UNCHANGED sockets
          /\ IF isMounted
             THEN /\ retryCount < MaxRetry
                  /\ retryCount' = retryCount + 1
                  /\ reconnectTimeout' = CatchDelay
                  /\ timers' = timers - fired + 1
             ELSE /\ reconnectTimeout' = NoTimer
                  /\ timers' = timers - fired
                  /\ UNCHANGED retryCount

\* useEffect: connect() is called when the effect runs.
MountConnect ==
    /\ ws = "init"
    /\ isMounted
    /\ ConnectBody(0)
    /\ UNCHANGED <<isMounted, streamVars, uiVars, pipelineVars, chatVars, justReset>>

\* setTimeout(connect, ...) fires.
TimerFire ==
    /\ timers > 0
    /\ ConnectBody(1)
    /\ UNCHANGED <<isMounted, streamVars, uiVars, pipelineVars, chatVars, justReset>>

OnOpen ==
    /\ ws = "connecting"
    /\ ws' = "open"
    /\ retryCount' = 0
    /\ UNCHANGED <<reconnectTimeout, isMounted, timers, sockets, connects, streamVars, uiVars,
                   pipelineVars, chatVars, justReset>>

\* A variant of ws.onerror that schedules a reconnect of its own.
OnErrorEventSchedules ==
    /\ ws \in {"connecting", "open"}
    /\ ws' = "closing"
    /\ reconnectTimeout' = WaitTime(retryCount)
    /\ timers' = timers + 1
    /\ UNCHANGED <<isMounted, retryCount, sockets, connects, streamVars, uiVars, pipelineVars,
                   chatVars, justReset>>

\* ws.onerror: ws?.close(); the close event follows.
OnErrorEvent ==
    /\ ws \in {"connecting", "open"}
    /\ ws' = "closing"
    /\ UNCHANGED <<reconnectTimeout, isMounted, retryCount, timers, sockets, connects,
                   streamVars, uiVars, pipelineVars, chatVars, justReset>>

\* A variant of ws.onclose that gives up once the delay has reached its cap.
OnCloseGivesUp ==
    /\ ws \in {"connecting", "open", "closing"}
    /\ ws' = "closed"
    /\ sockets' = sockets - 1
    /\ IF isMounted /\ WaitTime(retryCount) < MaxDelay
       THEN /\ retryCount < MaxRetry
            /\ reconnectTimeout' = WaitTime(retryCount)
            /\ timers' = timers + 1
            /\ retryCount' = retryCount + 1
       ELSE UNCHANGED <<reconnectTimeout, retryCount, timers>>
    /\ UNCHANGED <<isMounted, connects, streamVars, uiVars, pipelineVars, chatVars, justReset>>

OnClose ==
    /\ ws \in {"connecting", "open", "closing"}
    /\ ws' = "closed"
    /\ sockets' = sockets - 1
    /\ IF isMounted
       THEN /\ retryCount < MaxRetry
            /\ reconnectTimeout' = WaitTime(retryCount)
            /\ timers' = timers + 1
            /\ retryCount' = retryCount + 1
       ELSE UNCHANGED <<reconnectTimeout, retryCount, timers>>
    /\ UNCHANGED <<isMounted, connects, streamVars, uiVars, pipelineVars, chatVars, justReset>>

\* A variant of the cleanup that leaves the pending timeout alone.
CleanupKeepsTimer ==
    /\ isMounted
    /\ ws # "init"
    /\ isMounted' = FALSE
    /\ ws' = (IF ws \in {"connecting", "open"} THEN "closing" ELSE ws)
    /\ UNCHANGED <<reconnectTimeout, timers, retryCount, sockets, connects, streamVars, uiVars,
                   pipelineVars, chatVars, justReset>>

\* The effect's cleanup: isMounted = false; ws?.close();
\* clearTimeout(reconnectTimeout).
Cleanup ==
    /\ isMounted
    /\ ws # "init"
    /\ isMounted' = FALSE
    /\ ws' = (IF ws \in {"connecting", "open"} THEN "closing" ELSE ws)
    /\ reconnectTimeout' = NoTimer
    /\ timers' = (IF reconnectTimeout # NoTimer THEN timers - 1 ELSE timers)
    /\ UNCHANGED <<retryCount, sockets, connects, streamVars, uiVars, pipelineVars, chatVars,
                   justReset>>

\* ------------------------------------------------------------ ws.onmessage
Stages == <<"idle", "uploading", "partitioning", "chunking", "summarizing",
            "vectorizing", "complete">>

\* Position of a stage in the canonical order.
Rank(stage) == CHOOSE i \in 1..Len(Stages) : Stages[i] = stage

\* msg.stage.toLowerCase()
ToLowerCase(str) ==
    CASE str = "COMPLETE" -> "complete"
      [] str = "Chunking" -> "chunking"
      [] OTHER -> str

Counts == {NoNum} \cup (0..MaxCount)

Envelope(type, stage, status, count, images, tables) ==
    [type |-> type, stage |-> stage, status |-> status, count |-> count,
     images |-> images, tables |-> tables]

\* The messages explored; a field the handler does not read for the stage
\* named is left absent.  BadJson is a text JSON.parse rejects.
BadJson == [type |-> "<bad json>"]

Envelopes ==
    { Envelope("pipeline", st, "started", NoNum, NoNum, NoNum) :
        st \in {"idle", "uploading", "partitioning", "chunking", "summarizing",
                "vectorizing", "complete", "COMPLETE", "bogus", NonString} }
    \cup { Envelope("pipeline", st, "complete", c, NoNum, NoNum) :
        st \in {"partitioning", "chunking", "Chunking", "summarizing"}, c \in Counts }
    \cup { Envelope("pipeline", st, "complete", NoNum, i, t) :
        st \in {"complete", "COMPLETE"}, i \in Counts, t \in Counts }
    \cup { Envelope("other", "complete", "complete", 1, 1, 1),
           Envelope("pipeline", "bogus", "complete", 1, 1, 1),
           Envelope("pipeline", NonString, "complete", 1, 1, 1) }

IsNumber(x) == x # NoNum

WsStages == {"uploading", "partitioning", "chunking", "summarizing", "vectorizing",
             "complete"}

\* A variant that sets whatever stage the envelope names.
StatusAfterAnyStage(status, stage) == stage

\* setPipelineStatus(stage) when the stage is one of the six named.
StatusAfter(status, stage) == IF stage \in WsStages THEN stage ELSE status

MetricsAfter(m, msg, stage) ==
    LET m1 == IF msg.status = "complete" /\ IsNumber(msg.count)
              THEN IF stage = "partitioning" THEN [m EXCEPT !.elements = msg.count]
                   ELSE IF stage = "chunking" THEN [m EXCEPT !.chunks = msg.count]
                   ELSE m
              ELSE m
        m2 == IF stage = "complete" /\ msg.status = "complete" /\ IsNumber(msg.images)
              THEN [m1 EXCEPT !.images = msg.images] ELSE m1
        m3 == IF stage = "complete" /\ msg.status = "complete" /\ IsNumber(msg.tables)
              THEN [m2 EXCEPT !.tables = msg.tables] ELSE m2
    IN  m3

\* The body of ws.onmessage: what it leaves in pipelineStatus and metrics.
MessageResult(status, m, msg) ==
    IF msg # BadJson /\ msg.type = "pipeline" /\ msg.stage # NonString
    THEN LET stage == ToLowerCase(msg.stage)
         IN  [status |-> StatusAfter(status, stage),
              metrics |-> MetricsAfter(m, msg, stage)]
    ELSE [status |-> status, metrics |-> m]

OnMessage ==
    /\ ws = "open"
    /\ \E msg \in Envelopes \cup {BadJson} :
         /\ pipelineStatus' = MessageResult(pipelineStatus, metrics, msg).status
         /\ metrics' = MessageResult(pipelineStatus, metrics, msg).metrics
    /\ justReset' = "no"
    /\ UNCHANGED <<uploadedFile, realElements, realChunks, uploads, streamVars, uiVars, chatVars,
                   liveVars>>

\* ------------------------------------------------------------ handleUpload
FileName == "doc.pdf"

File(type, name, size) == [type |-> type, name |-> name, size |-> size]

\* handleUpload(file) up to `await uploadFile(file)`.
HandleUploadOf(file) ==
    /\ uploads < MaxUploads
    /\ uploadedFile' = file.name
    /\ pipelineStatus' = "uploading"
    /\ uploads' = uploads + 1
    /\ justReset' = "no"
    /\ UNCHANGED <<metrics, realElements, realChunks, streamVars, chatVars, liveVars>>

\* handleUpload called with a PDF.
HandleUpload ==
    /\ HandleUploadOf(File("application/pdf", FileName, 1))
    /\ UNCHANGED uiVars

\* report.total_x || 0
OrZero(x) == IF IsNumber(x) THEN x ELSE 0

TransformPipelineReport(report) ==
    [elements |-> OrZero(report.total_elements),
     chunks |-> OrZero(report.total_chunks),
     images |-> OrZero(report.total_images),
     tables |-> OrZero(report.total_tables)]

\* A list of the report is absent or has 0..1 items (an empty array is truthy).
Absent == <<"<absent>">>
ReportLists == {Absent, <<>>, <<"item">>}

Reports ==
    [total_elements : Counts, total_chunks : Counts, total_images : Counts,
     total_tables : Counts, elements : ReportLists, chunks : ReportLists]

\* uploadFile resolved: with a result that has a pipeline_report, or without.
UploadResolved ==
    /\ uploads > 0
    /\ uploads' = uploads - 1
    /\ \/ \E report \in Reports :
            /\ metrics' = TransformPipelineReport(report)
            /\ realElements' = (IF report.elements # Absent THEN report.elements
                                ELSE realElements)
            /\ realChunks' = (IF report.chunks # Absent THEN report.chunks
                              ELSE realChunks)
       \/ UNCHANGED <<metrics, realElements, realChunks>>
    /\ justReset' = "no"
    /\ UNCHANGED <<pipelineStatus, uploadedFile, streamVars, uiVars, chatVars, liveVars>>

\* uploadFile rejected: the catch block.
UploadRejected ==
    /\ uploads > 0
    /\ uploads' = uploads - 1
    /\ pipelineStatus' = "idle"
    /\ uploadedFile' = Null
    /\ justReset' = "no"
    /\ UNCHANGED <<metrics, realElements, realChunks, streamVars, uiVars, chatVars, liveVars>>

\* ------------------------------------------------------------- sendMessage
\* generateId() of utils/helpers: an id that is never a streaming id.
GenerateId == <<"generated", 0>>

\* `streaming-${Date.now()}`
StreamingMsgId(t) == <<"streaming", t>>

\* createUserMessage / createAssistantMessage; retrievedChunks undefined is
\* written as the empty list.
\* `turn` is not a field of the message: it records which sendMessage call
\* made the message its placeholder (0: none).
CreateUserMessage(content) ==
    [id |-> GenerateId, role |-> "user", content |-> content, retrievedChunks |-> <<>>,
     turn |-> 0]

CreateAssistantMessage(content, chunks) ==
    [id |-> GenerateId, role |-> "assistant", content |-> content,
     retrievedChunks |-> chunks, turn |-> 0]

CreateErrorMessage(errorMessage) == CreateAssistantMessage(errorMessage, <<>>)

\* prev.map((msg) => (msg.id === id ? { ...msg, retrievedChunks } : msg))
SetChunks(msgs, id, chunks) ==
    [i \in 1..Len(msgs) |->
        IF msgs[i].id = id THEN [msgs[i] EXCEPT !.retrievedChunks = chunks] ELSE msgs[i]]

\* prev.map((msg) => (msg.id === id ? { ...msg, content } : msg))
SetContent(msgs, id, content) ==
    [i \in 1..Len(msgs) |->
        IF msgs[i].id = id THEN [msgs[i] EXCEPT !.content = content] ELSE msgs[i]]

\* prev.filter((msg) => msg.id !== id)
FilterId(msgs, id) == SelectSeq(msgs, LAMBDA m : m.id # id)

\* (a, b) => b.score - a.score
CompareAscending(a, b) == a.score - b.score

Compare(a, b) == b.score - a.score

\* Array.prototype.sort is stable: x goes before the first item that the
\* comparator orders after it.
Insert(x, sorted) ==
    LET later == {i \in 1..Len(sorted) : Compare(sorted[i], x) > 0}
        k == IF later = {} THEN Len(sorted) + 1
             ELSE CHOOSE i \in later : \A j \in later : i <= j
    IN  SubSeq(sorted, 1, k - 1) \o <<x>> \o SubSeq(sorted, k, Len(sorted))

RECURSIVE SortChunks(_)
SortChunks(list) ==
    IF list = <<>> THEN <<>>
    ELSE Insert(Last(list), SortChunks(Front(list)))

\* What the stream of a turn may carry.
QueryText == <<"q">>
QueryLists == { <<"q1", "q2">> }
EvidenceLists == { Evidence(<<"2", "1", "2">>), Evidence(<<"1", "3">>) }
Tokens == { <<"H", "e">>, <<"y">> }
\* data.data of a frame that has no data field.
Undefined == <<"<undefined>">>
FinalTexts == { <<"H", "e", "y">>, <<>>, Undefined }
ErrorTexts == { <<"n", "o">> }

RECURSIVE TotalCalls(_)
TotalCalls(ts) == IF ts = <<>> THEN 0 ELSE Head(ts).ncalls + TotalCalls(Tail(ts))

\* The stream of turn t is open and may invoke a callback.
Streaming(t) ==
    t \in 1..Len(turns) /\ turns[t].pc = "streaming" /\ TotalCalls(turns) < MaxCalls

Called(t) == [turns EXCEPT ![t].ncalls = @ + 1]

\* sendMessage up to `await chatQueryStream(...)`.  Date.now() returns the
\* value it returned to the previous call, or a later one.
SendMessageOf(text) ==
    /\ Len(turns) < MaxTurns
    /\ \E t \in {now, now + 1} :
         /\ now' = t
         /\ LET placeholder == [CreateAssistantMessage(<<>>, <<>>)
                                    EXCEPT !.id = StreamingMsgId(t),
                                           !.turn = Len(turns) + 1]
            IN  messages' = messages \o <<CreateUserMessage(text), placeholder>>
         /\ turns' = Append(turns, [id |-> StreamingMsgId(t), streamedContent |-> <<>>,
                                    retrievedChunks |-> <<>>, pc |-> "streaming",
                                    ncalls |-> 0, stale |-> FALSE, done |-> FALSE])
    /\ isTyping' = TRUE
    /\ expandedQueries' = <<>>
    /\ justReset' = "no"
    /\ UNCHANGED <<streamVars, pipelineVars, liveVars>>

\* sendMessage called with a query.
SendMessage ==
    /\ SendMessageOf(QueryText)
    /\ UNCHANGED uiVars

OnQueries ==
    \E t \in 1..Len(turns), queries \in QueryLists :
        /\ Streaming(t)
        /\ expandedQueries' = queries
        /\ turns' = Called(t)
        /\ justReset' = "no"
        /\ UNCHANGED <<messages, isTyping, now, streamVars, uiVars, pipelineVars, liveVars>>

OnChunks ==
    \E t \in 1..Len(turns), chunks \in EvidenceLists :
        /\ Streaming(t)
        /\ LET retrievedChunks == SortChunks(chunks)
           IN  /\ turns' = [Called(t) EXCEPT ![t].retrievedChunks = retrievedChunks]
               /\ messages' = SetChunks(messages, turns[t].id, retrievedChunks)
        /\ justReset' = "no"
        /\ UNCHANGED <<isTyping, expandedQueries, now, streamVars, uiVars, pipelineVars, liveVars>>

OnToken ==
    \E t \in 1..Len(turns), token \in Tokens :
        /\ Streaming(t)
        /\ isTyping' = FALSE
        /\ LET streamedContent == turns[t].streamedContent \o token
           IN  /\ turns' = [Called(t) EXCEPT ![t].streamedContent = streamedContent]
               /\ messages' = SetContent(messages, turns[t].id, streamedContent)
        /\ justReset' = "no"
        /\ UNCHANGED <<expandedQueries, now, streamVars, uiVars, pipelineVars, liveVars>>

\* msg.id === streamingMsgId ? { ...msg, content: fullAnswer, retrievedChunks }
DoneUpdate(msgs, turn, fullAnswer) ==
    SetChunks(SetContent(msgs, turn.id, fullAnswer), turn.id, turn.retrievedChunks)

OnDone ==
    \E t \in 1..Len(turns), fullAnswer \in FinalTexts :
        /\ Streaming(t)
        /\ messages' = DoneUpdate(messages, turns[t], fullAnswer)
        /\ isTyping' = FALSE
        /\ turns' = [Called(t) EXCEPT ![t].done = TRUE]
        /\ justReset' = "no"
        /\ UNCHANGED <<expandedQueries, now, streamVars, uiVars, pipelineVars, liveVars>>

OnError ==
    \E t \in 1..Len(turns), error \in ErrorTexts :
        /\ Streaming(t)
        /\ messages' = FilterId(messages, turns[t].id) \o <<CreateErrorMessage(error)>>
        /\ isTyping' = FALSE
        /\ turns' = Called(t)
        /\ justReset' = "no"
        /\ UNCHANGED <<expandedQueries, now, streamVars, uiVars, pipelineVars, liveVars>>

\* chatQueryStream returned: no callback of the turn fires any more, and
\* the variables of its closure are dead.
StreamEnd ==
    \E t \in 1..Len(turns) :
        /\ turns[t].pc = "streaming"
        /\ turns' = [turns EXCEPT ![t].pc = "ended", ![t].streamedContent = <<>>,
                                  ![t].retrievedChunks = <<>>]
        /\ UNCHANGED <<messages, isTyping, expandedQueries, now, justReset, streamVars, uiVars,
                       pipelineVars, liveVars>>

\* -------------------------------------------------------------- resetState
Dirty ==
    /\ messages # <<>> /\ uploadedFile # Null /\ pipelineStatus # "idle"
    /\ \A f \in DOMAIN metrics : metrics[f] # 0
    /\ realElements # <<>> /\ realChunks # <<>> /\ expandedQueries # <<>>

ResetStateKeepsQueries ==
    /\ messages' = <<>>
    /\ uploadedFile' = Null
    /\ pipelineStatus' = "idle"
    /\ metrics' = ZeroMetrics
    /\ realElements' = <<>>
    /\ realChunks' = <<>>
    /\ turns' = [t \in 1..Len(turns) |-> [turns[t] EXCEPT !.stale = TRUE]]
    /\ justReset' = (IF Dirty THEN "dirty" ELSE "clean")
    /\ UNCHANGED <<expandedQueries, isTyping, now, uploads, streamVars, uiVars, liveVars>>

\* `stale` records that a turn was started before this reset, `done` that
\* its onDone has been applied.
ResetState ==
    /\ messages' = <<>>
    /\ uploadedFile' = Null
    /\ pipelineStatus' = "idle"
    /\ metrics' = ZeroMetrics
    /\ realElements' = <<>>
    /\ realChunks' = <<>>
    /\ expandedQueries' = <<>>
    /\ turns' = [t \in 1..Len(turns) |-> [turns[t] EXCEPT !.stale = TRUE]]
    /\ justReset' = (IF Dirty THEN "dirty" ELSE "clean")
    /\ UNCHANGED <<isTyping, now, uploads, streamVars, uiVars, liveVars>>

\* ------------------------------------------------------------ mapStepStatus
Order == <<"UPLOADING", "PARTITIONING", "CHUNKING", "SUMMARIZING", "VECTORIZING",
           "COMPLETE">>

\* String.prototype.toUpperCase on the names that occur.
ToUpperCase(str) ==
    CASE str = "idle" -> "IDLE"
      [] str = "uploading" -> "UPLOADING"
      [] str = "partitioning" -> "PARTITIONING"
      [] str = "chunking" -> "CHUNKING"
      [] str = "summarizing" -> "SUMMARIZING"
      [] str = "vectorizing" -> "VECTORIZING"
      [] str = "complete" -> "COMPLETE"
      [] str = "securing" -> "SECURING"
      [] str = "orchestrating" -> "ORCHESTRATING"
      [] OTHER -> str

\* Array.prototype.indexOf: the 0-based position, or -1.
IndexOf(arr, x) ==
    IF \E i \in 1..Len(arr) : arr[i] = x
    THEN (CHOOSE i \in 1..Len(arr) : arr[i] = x /\ \A j \in 1..(i - 1) : arr[j] # x) - 1
    ELSE -1

\* A variant in which the virtual steps are active during the upload.
MapStepStatusTwoSpinners(current, step) ==
    LET idx == IndexOf(Order, ToUpperCase(current))
        stepIdx == IndexOf(Order, ToUpperCase(step))
    IN  IF step = "securing" \/ step = "orchestrating"
        THEN IF idx > 0 THEN "complete" ELSE IF idx = 0 THEN "active" ELSE "pending"
        ELSE IF idx < 0 \/ stepIdx < 0 THEN "pending"
        ELSE IF idx < stepIdx THEN "pending"
        ELSE IF idx = stepIdx THEN "active"
        ELSE "complete"

MapStepStatus(current, step) ==
    LET idx == IndexOf(Order, ToUpperCase(current))
        stepIdx == IndexOf(Order, ToUpperCase(step))
    IN  IF step = "securing" \/ step = "orchestrating"
        THEN IF idx > 0 THEN "complete" ELSE "pending"
        ELSE IF idx < 0 \/ stepIdx < 0 THEN "pending"
        ELSE IF idx < stepIdx THEN "pending"
        ELSE IF idx = stepIdx THEN "active"
        ELSE "complete"

\* --------------------------------------------------- selectFile, validators
\* FILE_CONFIG.MAX_FILE_SIZE
MaxFileSize == 50 * 1024 * 1024

\* file.name.endsWith('.pdf')
EndsWithPdf(name) ==
    CASE name = "doc.pdf" -> TRUE
      [] name = "notes.pdf" -> TRUE
      [] OTHER -> FALSE

IsValidFileType(file) == file.type = "application/pdf" \/ EndsWithPdf(file.name)

IsValidFileSize(file) == file.size <= MaxFileSize

TypeError == "Only PDF files are accepted."
SizeError == "File size must be less than 50MB."

\* A variant of the validation without the size test.
ValidateFileUploadTypeOnly(file) ==
    IF ~IsValidFileType(file) THEN [valid |-> FALSE, error |-> TypeError]
    ELSE [valid |-> TRUE, error |-> Null]

ValidateFileUpload(file) ==
    IF ~IsValidFileType(file) THEN [valid |-> FALSE, error |-> TypeError]
    ELSE IF ~IsValidFileSize(file) THEN [valid |-> FALSE, error |-> SizeError]
    ELSE [valid |-> TRUE, error |-> Null]

\* The files the user picks: a PDF of exactly the largest size, a PDF whose
\* name has no extension, a file only named like a PDF, a text file, a PDF
\* one byte too large, a text file too large.
Files ==
    { File("application/pdf", "doc.pdf", MaxFileSize),
      File("application/pdf", "scan", 1),
      File("", "notes.pdf", 1),
      File("text/plain", "doc.txt", 1),
      File("application/pdf", "doc.pdf", MaxFileSize + 1),
      File("text/plain", "doc.txt", MaxFileSize + 1) }

\* onUploadClick -> selectFile: fileInput.click(), and the user picks a file.
ChooseFile ==
    /\ picked = <<>>
    /\ \E file \in Files : picked' = <<file>>
    /\ UNCHANGED <<inputValue, alertShown, streamVars, pipelineVars, chatVars, liveVars,
                   justReset>>

\* fileInput.onchange: alert and return, or onFileSelected(file), which is
\* handleUpload(file).
FileInputChange ==
    /\ picked # <<>>
    /\ picked' = <<>>
    /\ LET file == picked[1]
           validation == ValidateFileUpload(file)
       IN  IF ~validation.valid
           THEN /\ alertShown' = validation.error
                /\ justReset' = "no"
                /\ UNCHANGED <<inputValue, streamVars, pipelineVars, chatVars, liveVars>>
           ELSE /\ HandleUploadOf(file)
                /\ UNCHANGED <<inputValue, alertShown>>

\* ------------------------------------------------------------- App: onSend
\* String.prototype.trim
RECURSIVE TrimStart(_)
TrimStart(s) == IF s # <<>> /\ Head(s) = " " THEN TrimStart(Tail(s)) ELSE s

RECURSIVE TrimEnd(_)
TrimEnd(s) == IF s # <<>> /\ Last(s) = " " THEN TrimEnd(Front(s)) ELSE s

Trim(s) == TrimEnd(TrimStart(s))

\* query.trim().length > 0
IsValidQuery(query) == Len(Trim(query)) > 0

\* What the user types into the query box.
InputValues == { <<>>, <<" ">>, QueryText, <<" ">> \o QueryText }

\* textarea onChange: setInputValue(e.target.value)
TypeInput ==
    /\ \E v \in InputValues : v # inputValue /\ inputValue' = v
    /\ UNCHANGED <<picked, alertShown, streamVars, pipelineVars, chatVars, liveVars,
                   justReset>>

\* onSend: return when the query is not valid, else sendMessage(inputValue)
\* and setInputValue('').
OnSend ==
    IF ~IsValidQuery(inputValue)
    THEN UNCHANGED vars
    ELSE /\ SendMessageOf(inputValue)
         /\ inputValue' = <<>>
         /\ UNCHANGED <<picked, alertShown>>

\* The send button, which is disabled when the input is blank or the
\* pipeline is not complete.
ClickSend ==
    /\ ~(Trim(inputValue) = <<>> \/ pipelineStatus # "complete")
    /\ OnSend

\* textarea onKeyDown: Enter without Shift calls onSend.
OnKeyDown ==
    \E key \in {"Enter", "a"}, shiftKey \in BOOLEAN :
        IF key = "Enter" /\ ~shiftKey THEN OnSend ELSE UNCHANGED vars

\* ------------------------------------------------------- specifications
\* SpecLive: the live status effect, from mount to cleanup.
InitLive == StreamIdle /\ HookInit /\ LiveInit /\ UiInit

NextLive ==
    \/ MountConnect
    \/ TimerFire
    \/ OnOpen
    \/ OnMessage
    \/ OnErrorEvent
    \/ OnClose
    \/ Cleanup

SpecLive == InitLive /\ [][NextLive]_vars

\* SpecLiveFair: SpecLive on a page that stays alive: a timeout that was set
\* and not cleared fires, and the effect body runs once mounted.
SpecLiveFair ==
    /\ InitLive
    /\ [][NextLive]_vars
    /\ WF_vars(MountConnect)
    /\ WF_vars(TimerFire)

\* Spec: the pipeline state of the hook while the live socket is open:
\* envelopes, uploads and resets.
OpenSocket ==
    /\ ws = "open"
    /\ reconnectTimeout = NoTimer
    /\ isMounted = TRUE
    /\ retryCount = 0
    /\ timers = 0
    /\ sockets = 1
    /\ connects = 1

Init == StreamIdle /\ HookInit /\ OpenSocket /\ UiInit

Next ==
    \/ OnMessage
    \/ HandleUpload
    \/ UploadResolved
    \/ UploadRejected
    \/ ResetState

Spec == Init /\ [][Next]_vars

\* SpecSelect: the upload button: the file dialog, the validation and the
\* start of the upload, while envelopes arrive; an upload in flight ends by
\* being rejected.
NextSelect ==
    \/ ChooseFile
    \/ FileInputChange
    \/ OnMessage
    \/ UploadRejected
    \/ ResetState

SpecSelect == Init /\ [][NextSelect]_vars

\* SpecInput: the query box of App while envelopes arrive.
NextInput ==
    \/ TypeInput
    \/ ClickSend
    \/ OnKeyDown
    \/ OnMessage
    \/ ResetState

SpecInput == Init /\ [][NextInput]_vars

\* SpecChat: the conversation.  It starts where the input is enabled: a
\* document was uploaded, its report (every total c, one element, one chunk)
\* was stored by handleUpload, and the envelope of stage complete arrived.
Ingested(c) ==
    /\ pipelineStatus = "complete"
    /\ uploadedFile = FileName
    /\ metrics = TransformPipelineReport(
                     [total_elements |-> c, total_chunks |-> c, total_images |-> c,
                      total_tables |-> c, elements |-> <<"item">>, chunks |-> <<"item">>])
    /\ realElements = <<"item">>
    /\ realChunks = <<"item">>
    /\ uploads = 0

InitChat ==
    /\ StreamIdle
    /\ OpenSocket
    /\ \E c \in 1..MaxCount : Ingested(c)
    /\ messages = <<>>
    /\ isTyping = FALSE
    /\ expandedQueries = <<>>
    /\ turns = <<>>
    /\ now = 0
    /\ justReset = "no"
    /\ UiInit

NextChat ==
    \/ SendMessage
    \/ OnQueries
    \/ OnChunks
    \/ OnToken
    \/ OnDone
    \/ OnError
    \/ StreamEnd
    \/ ResetState

SpecChat == InitChat /\ [][NextChat]_vars

\* SpecChatFair: SpecChat on a network whose response streams terminate.
SpecChatFair ==
    /\ InitChat
    /\ [][NextChat]_vars
    /\ WF_vars(StreamEnd)

\* ------------------------------------------------------------- SpecStream
InitStream ==
    /\ wire \in Wires
    /\ rpos = 0
    /\ pending = <<>>
    /\ buffer = <<>>
    /\ calls = <<>>
    /\ spc = "fetch"
    /\ ending = "none"
    /\ midcut = FALSE
    /\ HookInit
    /\ LiveInit
    /\ UiInit

ApiErrorMessages == { <<"Stream request failed">>, <<"No response body">> }
GenericError == <<"Failed to stream response">>

\* A variant of the failed fetch whose catch block reports nothing.
FetchFailSilent ==
    /\ spc = "fetch"
    /\ spc' = "resolved"
    /\ ending' = "fetchfail"
    /\ UNCHANGED <<wire, rpos, pending, buffer, calls, midcut>>
    /\ UNCHANGED hookVars

\* fetch rejects, or the response is not ok, or it has no body: the throw is
\* caught by the outer catch, which calls onError.
FetchFail ==
    /\ spc = "fetch"
    /\ \E m \in ApiErrorMessages \cup {GenericError} :
         calls' = calls \o <<Call("onError", m)>>
    /\ spc' = "resolved"
    /\ ending' = "fetchfail"
    /\ UNCHANGED <<wire, rpos, pending, buffer, midcut>>
    /\ UNCHANGED hookVars

FetchOk ==
    /\ spc = "fetch"
    /\ spc' = "reading"
    /\ UNCHANGED <<wire, rpos, pending, buffer, calls, ending, midcut>>
    /\ UNCHANGED hookVars

\* reader.read() returns a chunk of n bytes; the loop body runs on it.
ReadChunk ==
    /\ spc = "reading"
    /\ rpos < Len(wire)
    /\ \E n \in (1..MaxChunk) \cup {Len(wire) - rpos} :
         /\ rpos + n <= Len(wire)
         /\ LET r == ProcessChunk(pending, buffer, SubSeq(wire, rpos + 1, rpos + n))
            IN  /\ pending' = r.pending
                /\ buffer' = r.buffer
                /\ calls' = calls \o r.calls
                /\ midcut' = (midcut \/ (rpos + n < Len(wire)
                                         /\ (r.buffer # <<>> \/ r.pending # <<>>)))
         /\ rpos' = rpos + n
    /\ UNCHANGED <<wire, spc, ending>>
    /\ UNCHANGED hookVars

\* A variant of the end of the stream that dispatches what is left in the
\* buffer.
ReadDoneFlushes ==
    /\ spc = "reading"
    /\ rpos = Len(wire)
    /\ spc' = "resolved"
    /\ ending' = "eof"
    /\ calls' = calls \o DispatchLine(buffer)
    /\ buffer' = <<>>
    /\ UNCHANGED <<wire, rpos, pending, midcut>>
    /\ UNCHANGED hookVars

\* reader.read() returns done: break, and the function returns.
ReadDone ==
    /\ spc = "reading"
    /\ rpos = Len(wire)
    /\ spc' = "resolved"
    /\ ending' = "eof"
    /\ UNCHANGED <<wire, rpos, pending, buffer, calls, midcut>>
    /\ UNCHANGED hookVars

\* A variant of the failed read without the outer catch: the rejection of
\* reader.read() rejects the promise chatQueryStream returned.
ReadFailEscapes ==
    /\ spc = "reading"
    /\ spc' = "rejected"
    /\ ending' = "readfail"
    /\ UNCHANGED <<wire, rpos, pending, buffer, calls, midcut>>
    /\ UNCHANGED hookVars

\* reader.read() rejects (the connection drops): the outer catch calls onError.
ReadFail ==
    /\ spc = "reading"
    /\ calls' = calls \o <<Call("onError", GenericError)>>
    /\ spc' = "resolved"
    /\ ending' = "readfail"
    /\ UNCHANGED <<wire, rpos, pending, buffer, midcut>>
    /\ UNCHANGED hookVars

NextStream == FetchFail \/ FetchOk \/ ReadChunk \/ ReadDone \/ ReadFail

SpecStream == InitStream /\ [][NextStream]_vars

\* ------------------------------------------------- chatQueryStream claims
\* The callbacks the wire gives when it is delivered in one chunk.
WholeDelivery(w) == ProcessChunk(<<>>, <<>>, w).calls

CallsOf(cs, cb) == SelectSeq(cs, LAMBDA c : c.cb = cb)

RECURSIVE TextOf(_)
TextOf(cs) == IF cs = <<>> THEN <<>> ELSE Head(cs).arg \o TextOf(Tail(cs))

\* An onError that a frame caused (the catch blocks use their own messages).
FrameError(c) == c.cb = "onError" /\ c.arg \notin ApiErrorMessages \cup {GenericError}

SortedDesc(ev) == \A i, j \in 1..Len(ev) : i < j => ev[i].score >= ev[j].score

TiesInArrivalOrder(ev) ==
    \A i, j \in 1..Len(ev) : (i < j /\ ev[i].score = ev[j].score) => ev[i].id < ev[j].id

\* C4: when the stream closes and no done frame was received, onDone has
\* been invoked exactly once, with the text of the tokens received.
StreamEndFiresDone ==
    (spc = "resolved" /\ ending = "eof" /\ CallsOf(WholeDelivery(wire), "onDone") = <<>>)
        => /\ Len(CallsOf(calls, "onDone")) = 1
           /\ CallsOf(calls, "onDone")[1].arg = TextOf(CallsOf(calls, "onToken"))

\* C5: a callback invoked for an error frame is the last callback of the turn.
ErrorFrameIsTerminal ==
    \A i \in 1..Len(calls) : FrameError(calls[i]) => i = Len(calls)

\* C6: however the bytes are cut into chunks, a stream read to its end has
\* invoked the callbacks of the one-chunk delivery, in the same order.
ChunkingIndependent ==
    (spc = "resolved" /\ ending = "eof") => calls = WholeDelivery(wire)

\* C6 witness: newline-terminated frames, read to the end in chunks of which
\* one ended inside a line, and both frames invoked a callback.
ChunkingIndependentWitness ==
    /\ spc = "resolved" /\ ending = "eof"
    /\ wire # <<>> /\ Last(wire) = NL
    /\ midcut
    /\ Len(calls) >= 2

\* C7: every list passed to onChunks is sorted descending by score, ties in
\* arrival order.
OnChunksSorted ==
    \A i \in 1..Len(calls) :
        calls[i].cb = "onChunks" =>
            SortedDesc(calls[i].arg) /\ TiesInArrivalOrder(calls[i].arg)

\* C9: onDone receives the concatenation of the fragments passed to onToken
\* before it.
DoneCarriesConcatenation ==
    \A i \in 1..Len(calls) :
        calls[i].cb = "onDone" =>
            calls[i].arg = TextOf(CallsOf(SubSeq(calls, 1, i - 1), "onToken"))

\* ------------------------------------------------------------ useRAG claims
\* C1: no step of the live status channel moves pipelineStatus to a stage
\* earlier in the canonical order.
StageNeverRegresses ==
    [][Rank(pipelineStatus') >= Rank(pipelineStatus)]_vars

\* A callback of turn t fires in this step.
Fires(t) == t \in 1..Len(turns) /\ turns'[t].ncalls > turns[t].ncalls

\* C2: a callback of a turn that was started before a reset, firing after
\* the reset, changes none of messages, expandedQueries and isTyping.
StaleCallbackChangesNothing ==
    [][\A t \in 1..Len(turns) :
          (turns[t].stale /\ Fires(t))
              => UNCHANGED <<messages, expandedQueries, isTyping>>]_vars

\* C3: resetState leaves pipelineStatus idle, the four metrics 0, messages,
\* expandedQueries, realElements and realChunks empty and uploadedFile null.
ResetClearsEverything ==
    justReset # "no" =>
        /\ pipelineStatus = "idle"
        /\ metrics = [elements |-> 0, chunks |-> 0, images |-> 0, tables |-> 0]
        /\ messages = <<>>
        /\ expandedQueries = <<>>
        /\ realElements = <<>>
        /\ realChunks = <<>>
        /\ uploadedFile = Null

\* C3 witness: resetState ran in a state where none of these was clear.
ResetClearsEverythingWitness == justReset = "dirty"

\* C8: the retrievedChunks of every assistant message are sorted descending
\* by score, items of equal score in the order the backend delivered them
\* (the id of an item is its position in the delivered list).
StoredChunksSorted ==
    \A i \in 1..Len(messages) :
        messages[i].role = "assistant" =>
            /\ SortedDesc(messages[i].retrievedChunks)
            /\ TiesInArrivalOrder(messages[i].retrievedChunks)

\* C8 witness: a message holds a list that was delivered unsorted and with a
\* tie, after onChunks and onDone both stored it.
StoredChunksSortedWitness ==
    \E i \in 1..Len(messages) :
        /\ messages[i].role = "assistant"
        /\ messages[i].retrievedChunks = <<[id |-> 1, score |-> 2], [id |-> 3, score |-> 2],
                                           [id |-> 2, score |-> 1]>>
        /\ messages[i].content = <<"H", "e", "y">>

\* C10: the delay of a pending reconnect is min(1s * 2^n, 10s), n the number
\* of consecutive failed attempts before the one that scheduled it.
BackoffOnEveryFailure ==
    reconnectTimeout # NoTimer =>
        reconnectTimeout = Min(1000 * Pow2(retryCount - 1), 10000)

\* C11: once the effect's cleanup has run, no reconnect timeout is pending, no
\* socket is open or connecting, connect() is never called again, and no step
\* changes pipelineStatus or metrics.
TornDownStaysQuiet ==
    [][~isMounted' =>
          /\ timers' = 0
          /\ reconnectTimeout' = NoTimer
          /\ ws' \notin {"connecting", "open"}
          /\ ~isMounted => /\ connects' = connects
                           /\ sockets' <= sockets
                           /\ pipelineStatus' = pipelineStatus
                           /\ metrics' = metrics]_vars

\* Torn down after at least one failed attempt and after envelopes had been
\* applied, the socket's close event delivered.
TornDownStaysQuietWitness ==
    /\ ~isMounted
    /\ ws = "closed"
    /\ retryCount > 0
    /\ pipelineStatus = "complete"

\* C12: when the request could not be established (fetch rejected, the status
\* was not a success, or the response had no body), the callbacks invoked are
\* exactly one onError.
EstablishFailureOneError ==
    ending = "fetchfail" => (Len(calls) = 1 /\ calls[1].cb = "onError")

\* A request refused with a non-success status, frames waiting unread.
EstablishFailureOneErrorWitness ==
    /\ ending = "fetchfail"
    /\ spc = "resolved"
    /\ calls # <<>> /\ calls[1].arg \in ApiErrorMessages
    /\ wire # <<>>

\* C13: a callback invoked for a done frame is the only onDone of the turn
\* and the last callback of the turn.
DoneFrameIsTerminal ==
    \A i \in 1..Len(calls) :
        calls[i].cb = "onDone" => (i = Len(calls) /\ Len(CallsOf(calls, "onDone")) = 1)

\* C14: the promise chatQueryStream returned is never rejected, and a request
\* that ended on a failed fetch or a failed read has resolved with onError
\* as its last callback.
FailuresEndInOnError ==
    /\ spc # "rejected"
    /\ ending \in {"fetchfail", "readfail"} =>
          /\ spc = "resolved"
          /\ calls # <<>>
          /\ Last(calls).cb = "onError"
          /\ Last(calls).arg \in ApiErrorMessages \cup {GenericError}

\* The connection dropped in the middle of a line, after a frame had been
\* dispatched.
FailuresEndInOnErrorWitness ==
    /\ ending = "readfail"
    /\ spc = "resolved"
    /\ Len(calls) >= 2
    /\ buffer # <<>>

\* The mounted channel has lost its connection: the last socket has closed,
\* or no socket could be constructed.
ConnectionLost == isMounted /\ ws \in {"closed", "none"}

\* C15: while the channel is mounted, every close and every failed
\* construction is followed by another call of connect(), after any number
\* of consecutive failures.
NeverStopsRetrying ==
    \A b \in {0, 1} :
        (ConnectionLost /\ connects = b) ~> (~isMounted \/ connects # b)

\* The connection lost again after the delay has reached its cap.
NeverStopsRetryingWitness ==
    /\ ConnectionLost
    /\ retryCount > 4
    /\ reconnectTimeout = MaxDelay
    /\ timers = 1

\* C16: at most one reconnect timeout is pending and at most one socket is
\* alive; an error event schedules nothing while its socket is alive, and a
\* mounted channel that has lost its connection has exactly one timeout
\* pending.
OneReconnectPerLoss ==
    /\ timers <= 1
    /\ sockets <= 1
    /\ sockets = 1 => timers = 0
    /\ ConnectionLost => timers = 1

\* A reconnected socket has raised an error event: the handler has closed it
\* and the close event is still to come.
OneReconnectPerLossWitness ==
    /\ isMounted
    /\ ws = "closing"
    /\ sockets = 1
    /\ timers = 0
    /\ connects = 0

\* C17: a step that is not resetState leaves a complete pipelineStatus
\* complete.
CompleteIsSticky ==
    [][(pipelineStatus = "complete" /\ justReset' = "no")
          => pipelineStatus' = "complete"]_vars

\* C18: a step that is not resetState lowers no field of metrics.
MetricsNeverDecrease ==
    [][justReset' = "no" => \A f \in DOMAIN metrics : metrics'[f] >= metrics[f]]_vars

\* The count updates: status complete with a numeric count, for partitioning
\* or chunking.
CountUpdates ==
    {msg \in Envelopes : /\ msg.type = "pipeline"
                         /\ msg.status = "complete"
                         /\ IsNumber(msg.count)
                         /\ msg.stage \in {"partitioning", "chunking"}}

CountField(stage) == IF stage = "partitioning" THEN "elements" ELSE "chunks"

\* C19: in every state, what ws.onmessage makes of a count update is: the
\* metrics unchanged when the stage it names is behind pipelineStatus, and
\* otherwise the metrics with the field of that stage set to the count.
CountUpdateRespectsStage ==
    \A msg \in CountUpdates :
        LET after == MetricsAfter(metrics, msg, ToLowerCase(msg.stage))
        IN  IF Rank(msg.stage) < Rank(pipelineStatus)
            THEN after = metrics
            ELSE after = [metrics EXCEPT ![CountField(msg.stage)] = msg.count]

IsPrefix(a, b) == Len(a) <= Len(b) /\ SubSeq(b, 1, Len(a)) = a

\* The onDone of the turn that owns the message with this id has been applied.
DoneApplied(id) == \E t \in 1..Len(turns) : turns[t].id = id /\ turns[t].done

\* C20: in every step the content of a streamed assistant message that stays
\* in the list is a prefix of its next content, and is its next content once
\* the onDone of its turn has been applied.
ContentOnlyGrows ==
    [][\A i \in 1..Len(messages) :
          (/\ i <= Len(messages')
           /\ messages[i].id = messages'[i].id
           /\ messages[i].id[1] = "streaming")
          => /\ IsPrefix(messages[i].content, messages'[i].content)
             /\ DoneApplied(messages[i].id) =>
                   messages'[i].content = messages[i].content]_vars

\* C21: in every state, what onDone makes of the message of an open turn is:
\* the final text as content when the done frame supplies one, the tokens
\* received so far otherwise, and the last evidence list of the turn.
DoneSetsFinalText ==
    \A t \in 1..Len(turns), fullAnswer \in FinalTexts :
        Streaming(t) =>
            LET after == DoneUpdate(messages, turns[t], fullAnswer)
            IN  \A i \in 1..Len(after) :
                    after[i].id = turns[t].id =>
                        /\ after[i].content = (IF fullAnswer # Undefined THEN fullAnswer
                                               ELSE turns[t].streamedContent)
                        /\ after[i].retrievedChunks = turns[t].retrievedChunks

\* The positions at which two message lists of equal length differ.
Changed(before, after) == {i \in 1..Len(before) : after[i] # before[i]}

\* C22: in every state, what onChunks makes of an evidence list received by
\* an open turn is: the new list, and nothing of the old one, on the turn's
\* message, its content as it was, and no other message changed.
EvidenceReplacesOwnList ==
    \A t \in 1..Len(turns), chunks \in EvidenceLists :
        Streaming(t) =>
            LET after == SetChunks(messages, turns[t].id, SortChunks(chunks))
            IN  /\ Cardinality(Changed(messages, after)) <= 1
                /\ \A i \in 1..Len(after) :
                      /\ after[i].content = messages[i].content
                      /\ after[i].id = turns[t].id =>
                            after[i].retrievedChunks = SortChunks(chunks)
                      /\ after[i].id # turns[t].id => after[i] = messages[i]

\* The lines of the whole response that end in a newline, decoded.
TerminatedLines(w) == Front(Split(Utf8Stream(w).text))

\* A line with the record prefix, a JSON object and one of the five types.
WellFormed(line) ==
    /\ Len(line) >= Len(Prefix) + 3
    /\ SubSeq(line, 1, Len(Prefix)) = Prefix
    /\ line[Len(Prefix) + 1] = "{"
    /\ line[Len(Prefix) + 2] \in {"Q", "C", "T", "D", "E"}
    /\ Last(line) = "}"

\* C23: a response read to its end has invoked exactly the callbacks of the
\* response without its lines that lack the prefix, are not JSON or carry an
\* unknown type.
MalformedLinesIgnored ==
    (spc = "resolved" /\ ending = "eof") =>
        calls = WholeDelivery(Concat(Terminated(SelectSeq(TerminatedLines(wire), WellFormed))))

\* A line that is not JSON, then a token frame, read to the end: the token
\* was dispatched.
MalformedLinesIgnoredWitness ==
    /\ spc = "resolved" /\ ending = "eof"
    /\ Len(TerminatedLines(wire)) = 2
    /\ TerminatedLines(wire)[1] = Prefix \o <<"{", "T", "x">>
    /\ WellFormed(TerminatedLines(wire)[2])
    /\ Len(calls) = 1

\* The callbacks that lines invoked (the catch block appends its own onError).
LineCalls(cs) ==
    SelectSeq(cs, LAMBDA c : ~(c.cb = "onError" /\ c.arg \in ApiErrorMessages \cup {GenericError}))

\* C24: at every moment the callbacks invoked are one for each well-formed
\* line whose newline has been received, and the text received after the
\* last newline is in the buffer; so it is when the stream has ended.
NoCallbackBeforeNewline ==
    spc # "fetch" =>
        LET got == SubSeq(wire, 1, rpos)
        IN  /\ Len(LineCalls(calls)) = Len(SelectSeq(TerminatedLines(got), WellFormed))
            /\ buffer = Last(Split(Utf8Stream(got).text))

\* The stream ended after a frame and a second frame without its newline:
\* one callback, the second frame still in the buffer.
NoCallbackBeforeNewlineWitness ==
    /\ spc = "resolved" /\ ending = "eof"
    /\ buffer = Line("T", <<"y">>)
    /\ Len(calls) = 1

\* The live-status messages that are not JSON, are not of type "pipeline",
\* or name no stage of the pipeline.
InvalidEnvelopes ==
    {BadJson}
    \cup {msg \in Envelopes : \/ msg.type # "pipeline"
                              \/ msg.stage = NonString
                              \/ msg.stage = "bogus"}

\* C25: in every state in which a message can arrive, what ws.onmessage
\* makes of an invalid message is the pipelineStatus and the metrics as they
\* are.
InvalidEnvelopeIgnored ==
    ws = "open" =>
        \A msg \in InvalidEnvelopes :
            MessageResult(pipelineStatus, metrics, msg)
                = [status |-> pipelineStatus, metrics |-> metrics]

\* An open socket with a stage and counts already set, where an invalid
\* message would show if it were applied.
InvalidEnvelopeIgnoredWitness ==
    /\ ws = "open"
    /\ isMounted
    /\ pipelineStatus = "chunking"
    /\ metrics.elements = 1

\* C26: when the change handler of the file dialog has run for a file that is
\* not a PDF (neither by type nor by name) or is larger than 50MB, the
\* message for that case has been shown, no upload was started, and
\* pipelineStatus and uploadedFile are as they were.
InvalidFileRejected ==
    [][(picked # <<>> /\ picked' = <<>>) =>
          LET file == picked[1]
              notPdf == file.type # "application/pdf" /\ ~EndsWithPdf(file.name)
              tooLarge == file.size > 50 * 1024 * 1024
          IN  (notPdf \/ tooLarge) =>
                  /\ alertShown' = (IF notPdf THEN TypeError ELSE SizeError)
                  /\ uploads' = uploads
                  /\ pipelineStatus' = pipelineStatus
                  /\ uploadedFile' = uploadedFile]_vars

\* A PDF one byte too large was refused while the document uploaded before
\* it was complete.
InvalidFileRejectedWitness ==
    /\ alertShown = SizeError
    /\ picked = <<>>
    /\ pipelineStatus = "complete"
    /\ uploadedFile = "doc.pdf"

\* C27: for the stage the panel is rendered with: when it is not idle, the
\* step of that stage is the one canonical step that is active, the steps
\* before it are complete and the steps after it pending; securing and
\* orchestrating are pending at idle and uploading and complete afterwards.
StepStatusesFollowStage ==
    /\ pipelineStatus # "idle" =>
          \A step \in WsStages :
              MapStepStatus(pipelineStatus, step) =
                  (IF Rank(step) < Rank(pipelineStatus) THEN "complete"
                   ELSE IF step = pipelineStatus THEN "active"
                   ELSE "pending")
    /\ \A step \in {"securing", "orchestrating"} :
          MapStepStatus(pipelineStatus, step) =
              (IF pipelineStatus \in {"idle", "uploading"} THEN "pending" ELSE "complete")

\* The panel rendered while the document is being uploaded: one spinner, the
\* virtual steps pending.
StepStatusesFollowStageWitness ==
    /\ pipelineStatus = "uploading"
    /\ MapStepStatus(pipelineStatus, "uploading") = "active"
    /\ MapStepStatus(pipelineStatus, "securing") = "pending"
    /\ MapStepStatus(pipelineStatus, "partitioning") = "pending"

\* C28: a step in which a callback of turn t fires leaves the placeholder of
\* every other turn in the list, with its content and evidence as they were.
TurnsAreIsolated ==
    [][\A t \in 1..Len(turns) :
          Fires(t) =>
              \A i \in 1..Len(messages) :
                  messages[i].turn \notin {0, t} =>
                      \E j \in 1..Len(messages') : messages'[j] = messages[i]]_vars

\* Every turn that was started has had its response stream terminate.
AllStreamsEnded ==
    turns # <<>> /\ \A t \in 1..Len(turns) : turns[t].pc = "ended"

\* C29: whenever the response streams of the turns started have terminated,
\* isTyping is false then or later.
TypingEventuallyOff == AllStreamsEnded ~> ~isTyping

\* C30: a step in which sendMessage is called starts from a state whose
\* input is not blank and whose pipelineStatus is complete.
SendOnlyWhenComplete ==
    [][Len(turns') > Len(turns) =>
          (Trim(inputValue) # <<>> /\ pipelineStatus = "complete")]_vars

====
